---- MODULE Spec2Model ----
(***************************************************************************)
(* Model of the rate-limited, retrying request core of auth0-export        *)
(* (src/auth0_export/exporter.py), of the listings, lookups, sub-fetches   *)
(* and mutations built on it, of the per-user aggregation and the tabular  *)
(* export, and of the command-line run (src/auth0_export/cli.py) that      *)
(* drives them.  Time is counted in clock ticks (TicksPerSec ticks to the  *)
(* second);                                                                *)
(* min_time_between_requests is kept as an exact fraction n/d of a second. *)
(* The code reads the clock only as the difference                         *)
(* time.time() - self.last_request_time, so the model keeps that           *)
(* difference (elapsed) instead of the two absolute readings.              *)
(***************************************************************************)
EXTENDS Integers, Sequences, FiniteSets, TLC

\* ------------------------------------------------------------ bounds
TicksPerSec == 4        \* resolution of the modelled clock
Epoch == 12             \* clock reading (ticks) when the exporter is built
MaxPages == 2           \* the tenant holds at most this many non-final pages
MaxOps == 2             \* listing operations started in one run
MaxWidenings == 5       \* a negative interval is widened while its denominator is below 2^this
ItemStride == 1000      \* item i of page p is numbered p * ItemStride + i

\* ------------------------------------------------------------ program constants
max_retries == 5            \* default of _retry_with_backoff
CeilingSecs == 2            \* ceiling of min_time_between_requests, seconds
LowWaterMark == 5           \* X-RateLimit-Remaining below this adds a delay
ExtraDelaySecs == 1         \* that delay, seconds
per_page == 100             \* page size asked of the top-level listings
OrgRolePageSize == 50       \* page size assumed for organization member roles

\* ------------------------------------------------------------ inputs
\* AUTH0_RATE_LIMIT_PER_SEC as int() parses it; 0 makes the constructor raise.
EnvRates == {-1, 0, 1, 2}
\* --rate-limit (click type=int), when the option is given.
CliRates == {-1, 0, 1}

\* Sizes of the pages the tenant serves.
TopSizes == {0, 7, per_page}
SubSizes == {0, 30, OrgRolePageSize}
\* The same for a tenant of a few users, all of them on page 0.
SmallTopSizes == {0, 1, 2}
SmallSubSizes == {0, 1, OrgRolePageSize}
\* Organizations a user is a member of, global roles a user holds, users a
\* search by email finds (per_page=1).
OrgCounts == {0, 1, 2}
RoleCounts == {0, 1}
EmailMatches == {0, 1}

\* The options of main that ask for a mutation, in the order main acts on
\* them, and the method of the exporter each of them calls.
MutationOptions == <<"assign_global_role", "assign_org_role", "remove_global_role",
                     "remove_org_role", "assign_to_org", "remove_from_org">>
MethodOf == [assign_global_role |-> "assign_global_role",
             assign_org_role    |-> "assign_organization_role",
             remove_global_role |-> "remove_global_role",
             remove_org_role    |-> "remove_organization_role",
             assign_to_org      |-> "assign_user_to_organization",
             remove_from_org    |-> "remove_user_from_organization"]
Mutations == {MethodOf[MutationOptions[k]] : k \in 1..Len(MutationOptions)}

\* The combinations of mutation options a run is started with.
RequestedSets == { {"assign_global_role"},
                   {"assign_org_role", "remove_from_org"},
                   {"remove_global_role", "remove_org_role", "assign_to_org"} }
\* The lines of --users-file: an identifier holding '@' is an email, any
\* other is a user id.
IdentifierFiles == { <<>>, <<"id">>, <<"email", "id">>, <<"id", "email">> }
\* --user-id or --email when no file is given.
SingleIdentifiers == { <<"id">>, <<"email">> }

\* Jitter of random.uniform(0, 1), in ticks: the least and the largest
\* value below one second the clock can tell apart.
Jitters == {0, TicksPerSec - 1}
\* Time a remote call takes, in ticks.
CallTicks == {0, 1}

\* ------------------------------------------------------------ fractions
Frac(n, d) == [n |-> n, d |-> d]
FracLess(a, b) == a.n * b.d < b.n * a.d
FracLeq(a, b) == a.n * b.d <= b.n * a.d
FracEq(a, b) == a.n * b.d = b.n * a.d

\* 1.0 / rate, rate a non-zero integer.
Reciprocal(rate) == IF rate > 0 THEN Frac(1, rate) ELSE Frac(-1, -rate)

RECURSIVE Pow(_, _)
Pow(b, e) == IF e = 0 THEN 1 ELSE b * Pow(b, e - 1)

\* Least number of ticks that is at least the fraction f of a second.
CeilTicks(f) ==
    LET q == (f.n * TicksPerSec) \div f.d
    IN  IF q * f.d = f.n * TicksPerSec THEN q ELSE q + 1


\* ------------------------------------------------------------ state
VARIABLES
    main_pc,                    \* where the command-line run stands
    rate_limit_per_second,      \* Auth0Exporter.rate_limit_per_second
    min_time_between_requests,  \* Auth0Exporter.min_time_between_requests (fraction of a second)
    elapsed,                    \* time.time() - self.last_request_time (ticks)
    epc,                        \* position inside _retry_with_backoff
    attempt,                    \* loop variable of _retry_with_backoff
    result,                     \* value _retry_with_backoff returned
    error,                      \* exception _retry_with_backoff raised
    outcomes,                   \* per call: what each invocation of func did
    sleeps,                     \* per call: the backoff sleeps, <<attempt, ticks>>
    widenings,                  \* per call: assignments to min_time_between_requests
    extra_sleeps,               \* per call: low-quota precaution sleeps
    min0,                       \* per call: min_time_between_requests when the call began
    waits,                      \* _rate_limit_wait calls so far (counted up to 2)
    gap,                        \* ticks from the previous recorded request time to the latest
    slept,                      \* ticks the latest _rate_limit_wait slept
    min_at_wait,                \* min_time_between_requests during the latest _rate_limit_wait
    op,                         \* the listing operation in progress
    oppc,                       \* position inside it
    page,                       \* its local variable page
    acc,                        \* its accumulator (users / roles / orgs)
    opret,                      \* what it returned
    got,                        \* sizes of the pages it was handed, in order
    wire,                       \* page index of every executor call it made, in order
    op_retried,                 \* some invocation it caused did not end its executor call
    op_failed,                  \* "no", or what raised in it: the "executor" or the use of its "answer"
    nops,                       \* operations started in this run
    logging,                    \* whether the per-call record is being kept
    tenant,                     \* "large" or "small": how much the tenant holds
    credentials,                \* "present" or "missing": the three required settings
    token,                      \* "none", "failed" or "held": the management token
    token_exchanges,            \* client-credentials exchanges attempted in this run
    interrupted,                \* a KeyboardInterrupt was raised in this run
    requested,                  \* main: the mutation options given on the command line
    users_file,                 \* main: whether --users-file was given
    identifiers,                \* main: user_identifiers, or the one --user-id / --email
    quiet,                      \* main: whether --quiet was given
    yes,                        \* main: whether --yes was given
    confirm,                    \* main: "unasked", or how the confirmation prompt ended
    target_users,               \* main: target_users
    user_i,                     \* loop index over users (main: i, export_to_excel: i), from 1
    act_i,                      \* main: which of the six "if <option>:" blocks is next, from 1
    user_success_count,         \* main: user_success_count
    total_success,              \* main: total_success
    attempted,                  \* mutations main called: <<user index, method, returned>>
    agg_pc,                     \* position inside get_user_complete_data
    orgs,                       \* local orgs of get_user_complete_data / export_to_excel
    global_roles,               \* local global_roles of the same
    org_data,                   \* local org_data of get_user_complete_data
    complete_data,              \* what get_user_complete_data returned
    sub_log,                    \* get_user_complete_data: its sub-fetches, in order;
                                \* export_to_excel: the membership sub-fetch of each user
    exp_pc,                     \* position inside export_to_excel
    users,                      \* local users of export_to_excel
    org_i,                      \* export_to_excel: index of org in "for org in orgs", from 1
    export_data                 \* local export_data of export_to_excel: the rows

throttle_vars == <<rate_limit_per_second, min_time_between_requests, elapsed>>
exec_vars == <<epc, attempt, result, error>>
call_hist == <<outcomes, sleeps, widenings, extra_sleeps, min0>>
wait_hist == <<waits, gap, slept, min_at_wait>>
op_vars == <<op, oppc, page, acc, opret, got, wire, op_retried, op_failed, nops>>
run_vars == <<credentials, token, token_exchanges, interrupted>>
cli_vars == <<requested, users_file, identifiers, quiet, yes, confirm, target_users, user_i, act_i,
              user_success_count, total_success, attempted>>
agg_vars == <<agg_pc, orgs, global_roles, org_data, complete_data, sub_log>>
exp_vars == <<exp_pc, users, org_i, export_data>>
caller_vars == <<run_vars, cli_vars, agg_vars, exp_vars>>
env_vars == <<logging, tenant, caller_vars>>
vars == <<main_pc, throttle_vars, exec_vars, call_hist, wait_hist, op_vars, env_vars>>

\* ------------------------------------------------------------ values
NoResult == [kind |-> "none", size |-> 0, page |-> 0, hint |-> <<>>]
NoError == [cls |-> "none", src |-> "none", at |-> 0]

\* A dict carrying the listing's field: `size` items of page `p`.
PageResponse(p, s) == [kind |-> "page", size |-> s, page |-> p, hint |-> <<>>]
\* The dict users.get answers with.
UserResponse == [kind |-> "user", size |-> 1, page |-> 0, hint |-> <<>>]
\* A dict without the listing's field.
NoKeyResponse(p) == [kind |-> "nokey", size |-> 0, page |-> p, hint |-> <<>>]
\* A value that is no dict and has no attribute `headers` (a list, a string).
PlainResponse(p) == [kind |-> "plain", size |-> 0, page |-> p, hint |-> <<>>]
\* Such a value when it is a list of s items.
ListResponse(s) == [kind |-> "plain", size |-> s, page |-> 0, hint |-> <<>>]
\* An object with an attribute `headers` (a raw response envelope);
\* hint is the text of X-RateLimit-Remaining, NoHeader when it is absent.
NoHeader == <<"absent">>
EnvelopeResponse(p, h) == [kind |-> "envelope", size |-> 0, page |-> p, hint |-> h]

Hints == { NoHeader, <<>>, <<"0">>, <<"4">>, <<"5">>, <<"a">>, <<"4", "2", "9", "x">> }

\* The items of page p when it holds s of them, in server order.
PageItems(p, s) == [i \in 1..s |-> p * ItemStride + i]

\* ------------------------------------------------------------ pure steps of the code
DigitValue == [c \in {"0", "1", "2", "4", "5", "9"} |->
                 CASE c = "0" -> 0 [] c = "1" -> 1 [] c = "2" -> 2
                   [] c = "4" -> 4 [] c = "5" -> 5 [] c = "9" -> 9]

\* int(text) succeeds: a non-empty run of decimal digits.
IntParses(text) == Len(text) > 0 /\ \A i \in 1..Len(text) : text[i] \in DOMAIN DigitValue

RECURSIVE IntOf(_)
IntOf(text) ==
    IF Len(text) = 0 THEN 0
    ELSE 10 * IntOf(SubSeq(text, 1, Len(text) - 1)) + DigitValue[text[Len(text)]]

\* '429' in text
Contains429(text) ==
    \E i \in 1..Len(text) - 2 : text[i] = "4" /\ text[i + 1] = "2" /\ text[i + 2] = "9"

\* `remaining` is truthy: the header is there and its text is not empty.
Truthy(h) == h # NoHeader /\ Len(h) > 0

\* if '429' in error_msg or 'rate limit' in error_msg.lower()
IsRateLimitErrorAlways(e) == TRUE
IsRateLimitError(e) == e.cls = "rl"

\* The ValueError int(remaining) raises quotes the text it could not parse.
IntValueError(h, n) ==
    [cls |-> IF Contains429(h) THEN "rl" ELSE "gen", src |-> "int", at |-> n]

\* The exception a failing invocation raises, tagged with its attempt.
RemoteError(cls, n) == [cls |-> cls, src |-> "remote", at |-> n]

\* raise Exception(f"Failed after {max_retries} attempts")
FailedAfterErrorReraised == RemoteError("rl", max_retries - 1)
FailedAfterError == [cls |-> "gen", src |-> "executor", at |-> max_retries]

\* min(self.min_time_between_requests * 1.5, 2.0)
Widen(m) ==
    LET w == Frac(3 * m.n, 2 * m.d)
    IN  IF FracLess(Frac(CeilingSecs, 1), w) THEN Frac(CeilingSecs, 1) ELSE w

\* 2 ** attempt + random.uniform(0, 1), in ticks
BackoffDelayLinear(n, jitter) == 2 * n * TicksPerSec + jitter
BackoffDelay(n, jitter) == Pow(2, n) * TicksPerSec + jitter

\* attempt == max_retries - 1
IsLastAttemptOffByOne(n) == n = max_retries
IsLastAttempt(n) == n = max_retries - 1

\* for attempt in range(max_retries): another turn follows attempt n
LoopContinuesOneMore(n) == n + 1 <= max_retries
LoopContinues(n) == n + 1 < max_retries

\* Ticks _rate_limit_wait sleeps when `since` ticks have passed since the
\* last recorded request: time.sleep gives at least the time asked for.
ThrottleSleepElapsed(since, m) ==
    IF since * m.d < m.n * TicksPerSec THEN since ELSE 0
ThrottleSleep(since, m) ==
    IF since * m.d < m.n * TicksPerSec
    THEN CeilTicks(Frac(m.n * TicksPerSec - since * m.d, m.d * TicksPerSec))
    ELSE 0

\* ------------------------------------------------------------ construction
\* No caller of the exporter's operations has begun: their locals are unset.
NoRecord == [user |-> "none", global_roles |-> <<>>, organizations |-> <<>>,
             metadata |-> [total_organizations |-> 0, total_global_roles |-> 0,
                           total_org_roles |-> 0]]
CallersIdle ==
    /\ confirm = "unasked"
    /\ target_users = <<>> /\ user_i = 0 /\ act_i = 0
    /\ user_success_count = 0 /\ total_success = 0 /\ attempted = <<>>
    /\ agg_pc = "idle" /\ orgs = <<>> /\ global_roles = <<>> /\ org_data = <<>>
    /\ complete_data = NoRecord /\ sub_log = <<>>
    /\ exp_pc = "idle" /\ users = <<>> /\ org_i = 0 /\ export_data = <<>>

\* Auth0Exporter.__init__ reads the rate; a rate of 0 raises ZeroDivisionError,
\* which main reports before exiting with status 1.
Construct ==
    /\ credentials = "present" /\ token = "held" /\ token_exchanges = 1
    /\ interrupted = FALSE
    /\ CallersIdle
    /\ rate_limit_per_second \in EnvRates
    /\ main_pc = IF rate_limit_per_second = 0 THEN "exit1" ELSE "constructed"
    /\ min_time_between_requests =
          IF rate_limit_per_second = 0 THEN Frac(0, 1)
          ELSE Reciprocal(rate_limit_per_second)
    /\ elapsed = Epoch
    /\ epc = "idle" /\ attempt = 0 /\ result = NoResult /\ error = NoError
    /\ outcomes = <<>> /\ sleeps = <<>> /\ widenings = 0 /\ extra_sleeps = 0
    /\ min0 = min_time_between_requests
    /\ waits = 0 /\ gap = 0 /\ slept = 0 /\ min_at_wait = min_time_between_requests
    /\ op = "none" /\ oppc = "idle" /\ page = 0 /\ acc = <<>> /\ opret = <<>>
    /\ got = <<>> /\ wire = <<>> /\ op_retried = FALSE /\ op_failed = "no" /\ nops = 0

\* all([self.domain, self.client_id, self.client_secret])
CredentialsCompleteAlways(c) == TRUE
CredentialsComplete(c) == c = "present"

\* What get_token.client_credentials does: it returns a token or it raises.
ExchangeOutcomes == {"held", "failed"}

\* main is about to call Auth0Exporter(): no exporter exists yet.
Unbuilt ==
    /\ main_pc = "start"
    /\ credentials \in {"present", "missing"}
    /\ token = "none" /\ token_exchanges = 0
    /\ interrupted = FALSE
    /\ CallersIdle
    /\ rate_limit_per_second = 0
    /\ min_time_between_requests = Frac(0, 1)
    /\ elapsed = Epoch
    /\ epc = "idle" /\ attempt = 0 /\ result = NoResult /\ error = NoError
    /\ outcomes = <<>> /\ sleeps = <<>> /\ widenings = 0 /\ extra_sleeps = 0
    /\ min0 = min_time_between_requests
    /\ waits = 0 /\ gap = 0 /\ slept = 0 /\ min_at_wait = min_time_between_requests
    /\ op = "none" /\ oppc = "idle" /\ page = 0 /\ acc = <<>> /\ opret = <<>>
    /\ got = <<>> /\ wire = <<>> /\ op_retried = FALSE /\ op_failed = "no" /\ nops = 0

\* Auth0Exporter.__init__ as main runs it: a missing credential raises
\* ValueError before any exchange; _get_management_client makes the one
\* client-credentials exchange, whose exception leaves the constructor; then
\* the rate is read.  main reports any of these exceptions and exits with
\* status 1.
__init__ ==
    /\ main_pc = "start"
    /\ IF ~CredentialsComplete(credentials)
       THEN /\ main_pc' = "exit1"
            /\ UNCHANGED <<token, token_exchanges, rate_limit_per_second,
                           min_time_between_requests, min0, min_at_wait>>
       ELSE /\ token_exchanges' = token_exchanges + 1
            /\ \E t \in ExchangeOutcomes :
                 /\ token' = t
                 /\ IF t = "failed"
                    THEN /\ main_pc' = "exit1"
                         /\ UNCHANGED <<rate_limit_per_second, min_time_between_requests,
                                        min0, min_at_wait>>
                    ELSE \E r \in EnvRates :
                           /\ rate_limit_per_second' = r
                           /\ main_pc' = IF r = 0 THEN "exit1" ELSE "constructed"
                           /\ min_time_between_requests' =
                                 IF r = 0 THEN Frac(0, 1) ELSE Reciprocal(r)
                           /\ min0' = min_time_between_requests'
                           /\ min_at_wait' = min_time_between_requests'
    /\ UNCHANGED <<elapsed, exec_vars, outcomes, sleeps, widenings, extra_sleeps, waits,
                   gap, slept, op_vars, logging, tenant, credentials, interrupted,
                   cli_vars, agg_vars, exp_vars>>

\* A run of one of the listing commands over a tenant of any size: no
\* mutation option and no user is named on the command line.
ListingRun ==
    /\ tenant = "large"
    /\ requested = {} /\ users_file = FALSE /\ identifiers = <<>>
    /\ quiet = FALSE /\ yes = FALSE

Init == Construct /\ ListingRun /\ logging = FALSE

\* main: "if rate_limit:" overrides the rate before any request is made.
OverrideRateLimit ==
    /\ main_pc = "constructed"
    /\ \/ \* the option is absent: rate_limit is None
          UNCHANGED <<rate_limit_per_second, min_time_between_requests, min0, min_at_wait>>
       \/ \E r \in CliRates :
            IF r # 0
            THEN /\ rate_limit_per_second' = r
                 /\ min_time_between_requests' = Reciprocal(r)
                 /\ min0' = Reciprocal(r)
                 /\ min_at_wait' = Reciprocal(r)
            ELSE UNCHANGED <<rate_limit_per_second, min_time_between_requests, min0,
                             min_at_wait>>
    /\ main_pc' = "ready"
    /\ UNCHANGED <<elapsed, exec_vars, outcomes, sleeps, widenings, extra_sleeps,
                   waits, gap, slept, op_vars, env_vars>>

\* ------------------------------------------------------------ _rate_limit_wait
RateLimitWait ==
    /\ epc = "wait"
    /\ slept' = ThrottleSleep(elapsed, min_time_between_requests)
    /\ gap' = elapsed + slept'
    /\ elapsed' = 0
    /\ min_at_wait' = min_time_between_requests
    /\ waits' = IF waits < 2 THEN waits + 1 ELSE waits
    /\ epc' = "call"
    /\ UNCHANGED <<main_pc, rate_limit_per_second, min_time_between_requests,
                   attempt, result, error, call_hist, op_vars, env_vars>>

\* ------------------------------------------------------------ _retry_with_backoff
\* The per-call record, kept while logging is on.
Logged(seq, x) == IF logging THEN Append(seq, x) ELSE seq
Counted(n) == IF logging THEN n + 1 ELSE n

\* Where a turn of "for attempt in range(max_retries)" begins: the first
\* statement of the try block is self._rate_limit_wait().
TryBlockEntryAtFunc == "call"
TryBlockEntry == "wait"

\* The tenant may answer with a rate-limit error: always when the interval is
\* positive (it stops at the ceiling), and while it is exactly representable
\* when it is negative.
MayWiden == min_time_between_requests.n > 0
              \/ min_time_between_requests.d < Pow(2, MaxWidenings)

\* The except clause, entered with exception e when the clock stands at t
\* ticks after the last recorded request.
OnException(e, t) ==
    IF IsRateLimitError(e)
    THEN \E j \in Jitters :
           /\ elapsed' = t + BackoffDelay(attempt, j)
           /\ sleeps' = Logged(sleeps, <<attempt, BackoffDelay(attempt, j)>>)
           /\ min_time_between_requests' = Widen(min_time_between_requests)
           /\ widenings' = Counted(widenings)
           /\ IF LoopContinues(attempt)
              THEN /\ attempt' = attempt + 1
                   /\ epc' = TryBlockEntry
                   /\ error' = NoError
              ELSE /\ epc' = "failed"
                   /\ error' = FailedAfterError
                   /\ UNCHANGED attempt
    ELSE IF IsLastAttempt(attempt)
    THEN /\ epc' = "failed"
         /\ error' = e
         /\ elapsed' = t
         /\ UNCHANGED <<attempt, sleeps, min_time_between_requests, widenings>>
    ELSE \E j \in Jitters :
           /\ elapsed' = t + BackoffDelay(attempt, j)
           /\ sleeps' = Logged(sleeps, <<attempt, BackoffDelay(attempt, j)>>)
           /\ attempt' = attempt + 1
           /\ epc' = TryBlockEntry
           /\ error' = NoError
           /\ UNCHANGED <<min_time_between_requests, widenings>>

\* What the tenant may answer to the request for page p of listing o.
PageSizes(o, p) ==
    IF o = "get_user_organizations" THEN OrgCounts
    ELSE IF o = "get_user_roles" THEN RoleCounts
    ELSE IF o = "get_user_by_email" THEN EmailMatches
    ELSE IF tenant = "small"
    THEN IF p > 0 THEN {0}
         ELSE IF o = "get_user_organization_roles" THEN SmallSubSizes
         ELSE SmallTopSizes
    ELSE IF o = "get_user_organization_roles"
    THEN IF p >= MaxPages THEN {s \in SubSizes : s < OrgRolePageSize} ELSE SubSizes
    ELSE IF p >= MaxPages THEN {0} ELSE TopSizes

\* users.list_organizations and users.list_roles answer with the decoded
\* body, a dict or a list; what a mutation answers with is not looked at by
\* its caller.
Answers(o, p) ==
    IF o \in {"get_user_organizations", "get_user_roles"}
    THEN {PageResponse(p, s) : s \in PageSizes(o, p)} \cup {NoKeyResponse(p)}
           \cup {ListResponse(s) : s \in PageSizes(o, p)}
    ELSE (IF o = "get_user_by_id"
          THEN {UserResponse}
          ELSE IF o \in Mutations
          THEN {}
          ELSE {PageResponse(p, s) : s \in PageSizes(o, p)} \cup {NoKeyResponse(p)})
           \cup {PlainResponse(p)}
           \cup {EnvelopeResponse(p, h) : h \in Hints}

\* int(remaining) raises ValueError on the hint of r.
HintRaises(r) == r.kind = "envelope" /\ Truthy(r.hint) /\ ~IntParses(r.hint)

\* if remaining and int(remaining) < 5
QuotaLow(r) == r.kind = "envelope" /\ Truthy(r.hint) /\ IntOf(r.hint) < LowWaterMark

\* The record of the latest _rate_limit_wait is dropped once func is invoked.
WaitRecordDropped ==
    /\ gap' = 0 /\ slept' = 0 /\ min_at_wait' = min_time_between_requests'
    /\ UNCHANGED waits

\* func returns r; lines 88-96 inspect it and return it.
FuncReturns ==
    /\ epc = "call"
    /\ \E r \in Answers(op, page), dur \in CallTicks :
         /\ (HintRaises(r) /\ Contains429(r.hint)) => MayWiden
         /\ outcomes' = Logged(outcomes, "ok")
         /\ IF HintRaises(r)
            THEN \* the ValueError is raised inside the try block
                 /\ OnException(IntValueError(r.hint, attempt), elapsed + dur)
                 /\ op_retried' = TRUE
                 /\ UNCHANGED <<result, extra_sleeps>>
            ELSE /\ IF QuotaLow(r)
                    THEN /\ elapsed' = elapsed + dur + ExtraDelaySecs * TicksPerSec
                         /\ extra_sleeps' = Counted(extra_sleeps)
                    ELSE /\ elapsed' = elapsed + dur
                         /\ UNCHANGED extra_sleeps
                 /\ result' = r
                 /\ epc' = "success"
                 /\ UNCHANGED <<attempt, error, sleeps, min_time_between_requests,
                                widenings, op_retried>>
    /\ WaitRecordDropped
    /\ UNCHANGED <<main_pc, rate_limit_per_second, min0,
                   op, oppc, page, acc, opret, got, wire, op_failed, nops, env_vars>>

\* func raises an exception whose text names a rate limit.
FuncRaisesRateLimit ==
    /\ epc = "call"
    /\ MayWiden
    /\ outcomes' = Logged(outcomes, "rl")
    /\ op_retried' = TRUE
    /\ \E dur \in CallTicks : OnException(RemoteError("rl", attempt), elapsed + dur)
    /\ WaitRecordDropped
    /\ UNCHANGED <<main_pc, rate_limit_per_second, result, extra_sleeps, min0,
                   op, oppc, page, acc, opret, got, wire, op_failed, nops, env_vars>>

\* func raises any other exception.
FuncRaisesGeneric ==
    /\ epc = "call"
    /\ outcomes' = Logged(outcomes, "gen")
    /\ op_retried' = TRUE
    /\ \E dur \in CallTicks : OnException(RemoteError("gen", attempt), elapsed + dur)
    /\ WaitRecordDropped
    /\ UNCHANGED <<main_pc, rate_limit_per_second, result, extra_sleeps, min0,
                   op, oppc, page, acc, opret, got, wire, op_failed, nops, env_vars>>

_retry_with_backoff ==
    \/ FuncReturns
    \/ FuncRaisesRateLimit
    \/ FuncRaisesGeneric

\* ------------------------------------------------------------ callers of the executor
TopListings == {"get_all_users", "get_available_roles", "get_available_organizations"}
Listings == TopListings \cup {"get_user_organization_roles"}

\* The operation is entered: its accumulator is empty and page is 0.
Begin(o) ==
    /\ main_pc = "ready"
    /\ oppc \in {"idle", "done"}
    /\ nops < MaxOps
    /\ op' = o /\ oppc' = "loop" /\ page' = 0 /\ acc' = <<>> /\ opret' = <<>>
    /\ got' = <<>> /\ wire' = <<>> /\ op_retried' = FALSE /\ op_failed' = "no"
    /\ nops' = nops + 1
    /\ UNCHANGED <<main_pc, throttle_vars, exec_vars, call_hist, wait_hist, env_vars>>

\* "for attempt in range(max_retries)": the value attempt starts from in a
\* call of the executor made after `earlier` operations of the run.
AttemptAtEntryCounting(earlier) == IF earlier > 1 THEN earlier - 1 ELSE 0
AttemptAtEntry(earlier) == 0

\* self._retry_with_backoff(...): a call of the executor begins.
Fetch(o) ==
    /\ op = o /\ oppc = "loop"
    /\ oppc' = "await"
    /\ wire' = Append(wire, page)
    /\ epc' = TryBlockEntry /\ attempt' = AttemptAtEntry(nops)
    /\ result' = NoResult /\ error' = NoError
    /\ outcomes' = <<>> /\ sleeps' = <<>> /\ widenings' = 0 /\ extra_sleeps' = 0
    /\ min0' = min_time_between_requests
    /\ UNCHANGED <<main_pc, throttle_vars, wait_hist, op, page, acc, opret, got,
                   op_retried, op_failed, nops, env_vars>>

\* The executor's call is over and its outcome consumed.
CallConsumed ==
    /\ epc' = "idle" /\ attempt' = 0 /\ result' = NoResult /\ error' = NoError
    /\ outcomes' = <<>> /\ sleeps' = <<>> /\ widenings' = 0 /\ extra_sleeps' = 0
    /\ min0' = min_time_between_requests

\* The operation returns `value`.
Return(value, failed) ==
    /\ oppc' = "done" /\ opret' = value /\ op_failed' = failed
    /\ UNCHANGED page

\* if not batch.get(key): break
PageEmptyOrPartial(r) == r.kind = "nokey" \/ (r.kind = "page" /\ r.size < per_page)
PageEmpty(r) == r.kind = "nokey" \/ (r.kind = "page" /\ r.size = 0)

\* if len(response['roles']) < 50: break
PageShortOnlyIfEmpty(r) == r.size = 0
PageShort(r) == r.size < OrgRolePageSize

\* x.get(key) on a value that is no dict raises AttributeError.
HasGet(r) == r.kind \in {"page", "nokey", "user"}

\* isinstance(response, dict) and 'roles' in response
HasRoles(r) == r.kind = "page"

\* What each listing returns from its except clause when `kept` was gathered.
OnUsersErrorDiscard(kept) == <<>>
OnUsersError(kept) == kept
OnRolesError(kept) == <<>>
OnOrganizationsError(kept) == <<>>
OnOrgRolesErrorKeep(kept) == kept
OnOrgRolesError(kept) == <<>>

\* One turn of the "while True" loop of a top-level listing after the executor
\* returned; onError is what the listing's except clause returns.
TopLevelTurn(o, onError) ==
    /\ op = o /\ oppc = "await" /\ epc = "success"
    /\ got' = IF result.kind = "page" THEN Append(got, result.size) ELSE got
    /\ IF ~HasGet(result)
       THEN Return(onError, "answer") /\ UNCHANGED acc
       ELSE IF PageEmpty(result)
       THEN Return(acc, "no") /\ UNCHANGED acc
       ELSE /\ acc' = acc \o PageItems(result.page, result.size)
            /\ page' = page + 1
            /\ oppc' = "loop"
            /\ UNCHANGED <<opret, op_failed>>
    /\ CallConsumed
    /\ UNCHANGED <<main_pc, throttle_vars, wait_hist, op, wire, op_retried, nops, env_vars>>

\* The executor raised: the operation's except clause.
CallRaised(o, onError) ==
    /\ op = o /\ oppc = "await" /\ epc = "failed"
    /\ Return(onError, "executor")
    /\ CallConsumed
    /\ UNCHANGED <<main_pc, throttle_vars, wait_hist, op, acc, got, wire, op_retried,
                   nops, env_vars>>

get_all_users ==
    \/ Begin("get_all_users")
    \/ Fetch("get_all_users")
    \/ TopLevelTurn("get_all_users", OnUsersError(acc))
    \/ CallRaised("get_all_users", OnUsersError(acc))

get_available_roles ==
    \/ Begin("get_available_roles")
    \/ Fetch("get_available_roles")
    \/ TopLevelTurn("get_available_roles", OnRolesError(acc))
    \/ CallRaised("get_available_roles", OnRolesError(acc))

get_available_organizations ==
    \/ Begin("get_available_organizations")
    \/ Fetch("get_available_organizations")
    \/ TopLevelTurn("get_available_organizations", OnOrganizationsError(acc))
    \/ CallRaised("get_available_organizations", OnOrganizationsError(acc))

\* One turn of the loop of get_user_organization_roles.
OrgRolesTurn ==
    /\ op = "get_user_organization_roles" /\ oppc = "await" /\ epc = "success"
    /\ got' = IF result.kind = "page" THEN Append(got, result.size) ELSE got
    /\ IF HasRoles(result)
       THEN /\ acc' = acc \o PageItems(result.page, result.size)
            /\ IF PageShort(result)
               THEN Return(acc', "no")
               ELSE /\ page' = page + 1
                    /\ oppc' = "loop"
                    /\ UNCHANGED <<opret, op_failed>>
       ELSE Return(acc, "no") /\ UNCHANGED acc
    /\ CallConsumed
    /\ UNCHANGED <<main_pc, throttle_vars, wait_hist, op, wire, op_retried, nops, env_vars>>

get_user_organization_roles ==
    \/ Begin("get_user_organization_roles")
    \/ Fetch("get_user_organization_roles")
    \/ OrgRolesTurn
    \/ CallRaised("get_user_organization_roles", OnOrgRolesError(acc))

\* get_user_by_id returns the user, or None (here <<>>) when the executor
\* raised or the answer has no .get for the debug message to call.
UserByIdReturned ==
    /\ op = "get_user_by_id" /\ oppc = "await" /\ epc = "success"
    /\ IF HasGet(result) THEN Return(<<result>>, "no") ELSE Return(<<>>, "answer")
    /\ CallConsumed
    /\ UNCHANGED <<main_pc, throttle_vars, wait_hist, op, acc, got, wire, op_retried,
                   nops, env_vars>>

get_user_by_id ==
    \/ Begin("get_user_by_id")
    \/ Fetch("get_user_by_id")
    \/ UserByIdReturned
    \/ CallRaised("get_user_by_id", <<>>)

\* get_user_by_email returns users[0] of the search, or None (here <<>>)
\* when nothing matched, the executor raised or the answer has no .get.
UserByEmailReturned ==
    /\ op = "get_user_by_email" /\ oppc = "await" /\ epc = "success"
    /\ IF ~HasGet(result) THEN Return(<<>>, "answer")
       ELSE IF result.kind = "page" /\ result.size > 0
       THEN Return(<<PageItems(result.page, result.size)[1]>>, "no")
       ELSE Return(<<>>, "no")
    /\ CallConsumed
    /\ UNCHANGED <<main_pc, throttle_vars, wait_hist, op, acc, got, wire, op_retried,
                   nops, env_vars>>

\* ------------------------------------------------------------ calls from a caller
\* A caller that holds the thread (main, get_user_complete_data,
\* export_to_excel) enters operation o.
Call(o) ==
    /\ oppc \in {"idle", "done"}
    /\ op' = o /\ oppc' = "loop" /\ page' = 0 /\ acc' = <<>> /\ opret' = <<>>
    /\ got' = <<>> /\ wire' = <<>> /\ op_retried' = FALSE /\ op_failed' = "no"
    /\ UNCHANGED <<nops, throttle_vars, exec_vars, call_hist, wait_hist>>

\* The operations as their callers run them, once entered.
get_user_by_id_called ==
    \/ Fetch("get_user_by_id")
    \/ UserByIdReturned
    \/ CallRaised("get_user_by_id", <<>>)

get_user_by_email ==
    \/ Fetch("get_user_by_email")
    \/ UserByEmailReturned
    \/ CallRaised("get_user_by_email", <<>>)

get_user_organization_roles_called ==
    \/ Fetch("get_user_organization_roles")
    \/ OrgRolesTurn
    \/ CallRaised("get_user_organization_roles", OnOrgRolesError(acc))

\* ------------------------------------------------------------ sub-fetches of one user
\* isinstance(response, dict)
IsDict(r) == r.kind \in {"page", "nokey", "user"}

\* response.get(key, []) if isinstance(response, dict) else response
ListOf(r) ==
    IF IsDict(r) /\ r.kind # "page" THEN <<>> ELSE PageItems(r.page, r.size)

\* What the two single-call sub-fetches return from their except clause.
OnUserOrganizationsError == <<>>
OnUserRolesError == <<>>

\* The executor returned the answer to a single-call sub-fetch.
SubFetchReturned(o) ==
    /\ op = o /\ oppc = "await" /\ epc = "success"
    /\ got' = IF result.kind = "nokey" THEN got ELSE Append(got, result.size)
    /\ Return(ListOf(result), "no")
    /\ CallConsumed
    /\ UNCHANGED <<main_pc, throttle_vars, wait_hist, op, acc, wire, op_retried,
                   nops, env_vars>>

get_user_organizations ==
    \/ Fetch("get_user_organizations")
    \/ SubFetchReturned("get_user_organizations")
    \/ CallRaised("get_user_organizations", OnUserOrganizationsError)

get_user_roles ==
    \/ Fetch("get_user_roles")
    \/ SubFetchReturned("get_user_roles")
    \/ CallRaised("get_user_roles", OnUserRolesError)

\* The sub-fetch that just returned, as the record of sub-fetches keeps it.
SubFetch(org) ==
    [fetch |-> op, org |-> org, got |-> got, wire |-> wire,
     failed |-> op_failed # "no", ret |-> opret]

\* ------------------------------------------------------------ get_user_complete_data
\* "for org in orgs:" has another org to take after `taken` of them.
MoreOrgsOrNone(taken, all) == taken < Len(all) \/ Len(all) = 0
MoreOrgs(taken, all) == taken < Len(all)

\* "for org in orgs:" takes this org after `taken` of them (0 past the end).
NextOrgFromEnd(taken, all) == IF taken < Len(all) THEN all[Len(all) - taken] ELSE 0
NextOrg(taken, all) == IF taken < Len(all) THEN all[taken + 1] ELSE 0

\* org_info = {'organization': org, 'roles': org_roles}
OrgInfo(org, roles) == [organization |-> org, roles |-> roles]

\* sum(len(org_info['roles']) for org_info in org_data)
RECURSIVE SumOfRoles(_)
SumOfRoles(data) ==
    IF Len(data) = 0 THEN 0
    ELSE SumOfRoles(SubSeq(data, 1, Len(data) - 1)) + Len(data[Len(data)].roles)

TotalOrgRolesEntries(data) == Len(data)
TotalOrgRoles(data) == SumOfRoles(data)

\* complete_data, assembled from the locals.
CompleteData(o, g, d) ==
    [user |-> "user", global_roles |-> g, organizations |-> d,
     metadata |-> [total_organizations |-> Len(o),
                   total_global_roles |-> Len(g),
                   total_org_roles |-> TotalOrgRoles(d)]]

\* get_user_complete_data is called and calls get_user_organizations.
CompleteDataCalled ==
    /\ main_pc = "ready" /\ requested = {} /\ identifiers # <<>>
    /\ agg_pc = "idle"
    /\ Call("get_user_organizations")
    /\ agg_pc' = "orgs"
    /\ main_pc' = "query"
    /\ UNCHANGED <<logging, tenant, run_vars, cli_vars, orgs, global_roles, org_data,
                   complete_data, sub_log, exp_vars>>

\* orgs is bound; get_user_roles is called.
OrganizationsFetched ==
    /\ agg_pc = "orgs" /\ oppc = "done"
    /\ orgs' = opret
    /\ sub_log' = Append(sub_log, SubFetch(0))
    /\ Call("get_user_roles")
    /\ agg_pc' = "roles"
    /\ UNCHANGED <<main_pc, logging, tenant, run_vars, cli_vars, global_roles, org_data,
                   complete_data, exp_vars>>

\* The loop over orgs is at its head with global_roles and org_data as given:
\* the roles of the next org are fetched, or complete_data is assembled and
\* returned.
NextOrgOrReturn(roles, data) ==
    IF MoreOrgs(Len(data), orgs)
    THEN /\ Call("get_user_organization_roles")
         /\ agg_pc' = "org_roles"
         /\ UNCHANGED <<main_pc, complete_data>>
    ELSE /\ complete_data' = CompleteData(orgs, roles, data)
         /\ agg_pc' = "done"
         /\ main_pc' = "exit0"
         /\ UNCHANGED <<op_vars, exec_vars, call_hist, throttle_vars, wait_hist>>

\* global_roles is bound; the loop over orgs begins.
GlobalRolesFetched ==
    /\ agg_pc = "roles" /\ oppc = "done"
    /\ global_roles' = opret
    /\ sub_log' = Append(sub_log, SubFetch(0))
    /\ org_data' = <<>>
    /\ NextOrgOrReturn(opret, <<>>)
    /\ UNCHANGED <<logging, tenant, run_vars, cli_vars, orgs, exp_vars>>

\* org_roles is bound for the org in hand and org_info appended.
OrgRolesFetched ==
    /\ agg_pc = "org_roles" /\ oppc = "done"
    /\ LET org == NextOrg(Len(org_data), orgs)
       IN  /\ org_data' = Append(org_data, OrgInfo(org, opret))
           /\ sub_log' = Append(sub_log, SubFetch(org))
    /\ NextOrgOrReturn(global_roles, org_data')
    /\ UNCHANGED <<logging, tenant, run_vars, cli_vars, orgs, global_roles, exp_vars>>

get_user_complete_data ==
    \/ CompleteDataCalled
    \/ OrganizationsFetched
    \/ GlobalRolesFetched
    \/ OrgRolesFetched

\* ------------------------------------------------------------ export_to_excel
\* get_all_users as export_to_excel runs it, once entered.
get_all_users_called ==
    \/ Fetch("get_all_users")
    \/ TopLevelTurn("get_all_users", OnUsersError(acc))
    \/ CallRaised("get_all_users", OnUsersError(acc))

\* user_data: the columns taken from the user, and 'Global Roles'.
UserData(user, roles) == [user |-> user, global_roles |-> roles]

\* A row of export_data: user_data and the organization columns.  A column
\* holding None is <<>>, a column holding the value v is <<v>>.
Row(user_data, org, org_roles) ==
    [user_data |-> user_data, organization |-> org, organization_roles |-> org_roles]

\* The else branch of "if orgs:": what a user without organizations adds.
RowsWithoutOrgsNone(user_data) == <<>>
RowsWithoutOrgs(user_data) == <<Row(user_data, <<>>, <<>>)>>

\* "for i, user in enumerate(users)" is at its head after `taken` of the
\* users `all`, with `rows` in export_data: the global roles of the next user
\* are fetched, or the sheet is written.  Selecting the columns of a DataFrame
\* built from no row raises KeyError, which leaves export_to_excel.
NextUserOrWrite(taken, all, rows) ==
    IF taken < Len(all)
    THEN /\ user_i' = taken + 1
         /\ Call("get_user_roles")
         /\ exp_pc' = "roles"
         /\ UNCHANGED main_pc
    ELSE /\ IF rows = <<>>
            THEN exp_pc' = "raised" /\ main_pc' = "exit1"
            ELSE exp_pc' = "widths" /\ UNCHANGED main_pc
         /\ UNCHANGED <<user_i, op_vars, exec_vars, call_hist, throttle_vars, wait_hist>>

\* exporter.main: export_to_excel is called on the exporter just built and
\* calls get_all_users.
ExportCalled ==
    /\ main_pc = "constructed" /\ exp_pc = "idle"
    /\ Call("get_all_users")
    /\ exp_pc' = "users"
    /\ main_pc' = "export"
    /\ UNCHANGED <<logging, tenant, run_vars, cli_vars, agg_vars, users, org_i,
                   export_data>>

\* users is bound and export_data is empty; the loop over users begins.
UsersFetched ==
    /\ exp_pc = "users" /\ oppc = "done"
    /\ users' = opret
    /\ export_data' = <<>>
    /\ NextUserOrWrite(0, opret, <<>>)
    /\ UNCHANGED <<logging, tenant, run_vars, requested, users_file, identifiers, quiet, yes, confirm,
                   target_users, act_i, user_success_count, total_success, attempted,
                   agg_vars, org_i>>

\* global_roles is bound for the user in hand; get_user_organizations is called.
ExportRolesFetched ==
    /\ exp_pc = "roles" /\ oppc = "done"
    /\ global_roles' = opret
    /\ Call("get_user_organizations")
    /\ exp_pc' = "orgs"
    /\ UNCHANGED <<main_pc, logging, tenant, run_vars, cli_vars, agg_pc, orgs, org_data,
                   complete_data, sub_log, users, org_i, export_data>>

\* orgs is bound: "if orgs:" fetches the roles in the first of them, else the
\* user's one row is appended.
ExportOrgsFetched ==
    /\ exp_pc = "orgs" /\ oppc = "done"
    /\ orgs' = opret
    /\ sub_log' = Append(sub_log, SubFetch(0))
    /\ IF opret # <<>>
       THEN /\ org_i' = 1
            /\ Call("get_user_organization_roles")
            /\ exp_pc' = "org_roles"
            /\ UNCHANGED <<main_pc, user_i, export_data>>
       ELSE /\ export_data' =
                  export_data \o RowsWithoutOrgs(UserData(users[user_i], global_roles))
            /\ NextUserOrWrite(user_i, users, export_data')
            /\ UNCHANGED org_i
    /\ UNCHANGED <<logging, tenant, run_vars, requested, users_file, identifiers, quiet, yes, confirm,
                   target_users, act_i, user_success_count, total_success, attempted,
                   agg_pc, global_roles, org_data, complete_data, users>>

\* org_roles is bound for org number org_i: org_data, the copy of user_data
\* with the organization columns set, is appended.
ExportOrgRolesFetched ==
    /\ exp_pc = "org_roles" /\ oppc = "done"
    /\ export_data' =
          Append(export_data,
                 Row(UserData(users[user_i], global_roles), <<orgs[org_i]>>, <<opret>>))
    /\ IF org_i < Len(orgs)
       THEN /\ org_i' = org_i + 1
            /\ Call("get_user_organization_roles")
            /\ UNCHANGED <<main_pc, user_i, exp_pc>>
       ELSE /\ NextUserOrWrite(user_i, users, export_data')
            /\ UNCHANGED org_i
    /\ UNCHANGED <<logging, tenant, run_vars, requested, users_file, identifiers, quiet, yes, confirm,
                   target_users, act_i, user_success_count, total_success, attempted,
                   agg_vars, users>>

\* The sheet is written and its column widths set; exporter.main prints the
\* file name and returns.
ExportWritten ==
    /\ exp_pc = "widths"
    /\ exp_pc' = "done"
    /\ main_pc' = "exit0"
    /\ UNCHANGED <<throttle_vars, exec_vars, call_hist, wait_hist, op_vars, logging,
                   tenant, run_vars, cli_vars, agg_vars, users, org_i, export_data>>

export_to_excel ==
    \/ ExportCalled
    \/ UsersFetched
    \/ ExportRolesFetched
    \/ ExportOrgsFetched
    \/ ExportOrgRolesFetched
    \/ ExportWritten

\* ------------------------------------------------------------ mutations
\* return True after the executor returned, return False in the except clause.
OnMutationSuccess == TRUE
OnMutationErrorTrue == TRUE
OnMutationError == FALSE

MutationReturned(o) ==
    /\ op = o /\ oppc = "await" /\ epc = "success"
    /\ Return(OnMutationSuccess, "no")
    /\ CallConsumed
    /\ UNCHANGED <<main_pc, throttle_vars, wait_hist, op, acc, got, wire, op_retried,
                   nops, env_vars>>

assign_global_role ==
    \/ Fetch("assign_global_role")
    \/ MutationReturned("assign_global_role")
    \/ CallRaised("assign_global_role", OnMutationError)

assign_organization_role ==
    \/ Fetch("assign_organization_role")
    \/ MutationReturned("assign_organization_role")
    \/ CallRaised("assign_organization_role", OnMutationError)

remove_global_role ==
    \/ Fetch("remove_global_role")
    \/ MutationReturned("remove_global_role")
    \/ CallRaised("remove_global_role", OnMutationError)

remove_organization_role ==
    \/ Fetch("remove_organization_role")
    \/ MutationReturned("remove_organization_role")
    \/ CallRaised("remove_organization_role", OnMutationError)

assign_user_to_organization ==
    \/ Fetch("assign_user_to_organization")
    \/ MutationReturned("assign_user_to_organization")
    \/ CallRaised("assign_user_to_organization", OnMutationError)

remove_user_from_organization ==
    \/ Fetch("remove_user_from_organization")
    \/ MutationReturned("remove_user_from_organization")
    \/ CallRaised("remove_user_from_organization", OnMutationError)

\* ------------------------------------------------------------ main: the mutation run
\* '@' in identifier
LookupOf(identifier) ==
    IF identifier = "email" THEN "get_user_by_email" ELSE "get_user_by_id"

\* "if <option>:" of the block of main that acts on the option.
GivenWhileNoFailure(option) ==
    option \in requested /\ \A k \in 1..Len(attempted) : attempted[k][3]
Given(option) == option \in requested

\* if exporter.<method>(...): user_success_count += 1
CountsAlways(returned) == 1
Counts(returned) == IF returned THEN 1 ELSE 0

\* How Confirm.ask can end: it returns True or False, or input() raises
\* EOFError.
PromptAnswers == {"yes", "no", "eof"}

\* With a users file, "if not quiet:" and in it "if not yes:" put the
\* confirmation prompt; an answer of no returns from main.  Then main looks
\* up the first identifier; an empty file leaves no target user.
ResolveUsers ==
    /\ main_pc = "ready" /\ requested # {}
    /\ \E answer \in (IF users_file /\ ~quiet /\ ~yes THEN PromptAnswers ELSE {confirm}) :
         /\ confirm' = answer
         /\ IF answer = "no"
            THEN /\ main_pc' = "exit0"
                 /\ UNCHANGED <<op_vars, exec_vars, call_hist, user_i>>
            ELSE IF identifiers = <<>>
            THEN /\ main_pc' = "exit1"
                 /\ UNCHANGED <<op_vars, exec_vars, call_hist, user_i>>
            ELSE /\ Call(LookupOf(identifiers[1]))
                 /\ user_i' = 1
                 /\ main_pc' = "resolving"
    /\ UNCHANGED <<throttle_vars, wait_hist, logging, tenant, run_vars, requested,
                   users_file, identifiers, quiet, yes, target_users, act_i,
                   user_success_count, total_success, attempted, agg_vars, exp_vars>>

\* "if user:" / "if not user:" on what a lookup returned (None is <<>>).
FoundAlways(user) == TRUE
Found(user) == user # <<>>

\* The lookup of identifier user_i returned: "if user: target_users.append(user)";
\* the next identifier is looked up, or the loop over target_users begins.
UserResolved ==
    /\ main_pc = "resolving" /\ oppc = "done"
    /\ LET found == Found(opret)
           targets == IF found THEN Append(target_users, user_i) ELSE target_users
       IN  /\ target_users' = targets
           /\ IF ~users_file /\ ~found
              THEN \* User not found: sys.exit(1)
                   /\ main_pc' = "exit1"
                   /\ UNCHANGED <<op_vars, exec_vars, call_hist, user_i, act_i>>
              ELSE IF user_i < Len(identifiers)
              THEN /\ Call(LookupOf(identifiers[user_i + 1]))
                   /\ user_i' = user_i + 1
                   /\ UNCHANGED <<main_pc, act_i>>
              ELSE IF targets = <<>>
              THEN \* No valid users found to process: sys.exit(1)
                   /\ main_pc' = "exit1"
                   /\ UNCHANGED <<op_vars, exec_vars, call_hist, user_i, act_i>>
              ELSE /\ main_pc' = "mutate"
                   /\ user_i' = 1 /\ act_i' = 1
                   /\ UNCHANGED <<op_vars, exec_vars, call_hist>>
    /\ UNCHANGED <<throttle_vars, wait_hist, logging, tenant, run_vars, requested,
                   users_file, identifiers, quiet, yes, confirm, user_success_count, total_success,
                   attempted, agg_vars, exp_vars>>

\* One of the six blocks of the loop body is reached for target user user_i,
\* or the end of the body, or the end of the loop.
MutateNext ==
    /\ main_pc = "mutate"
    /\ IF act_i <= Len(MutationOptions)
       THEN IF Given(MutationOptions[act_i])
            THEN /\ Call(MethodOf[MutationOptions[act_i]])
                 /\ main_pc' = "mutating"
                 /\ UNCHANGED <<user_i, act_i, user_success_count, total_success>>
            ELSE /\ act_i' = act_i + 1
                 /\ UNCHANGED <<main_pc, op_vars, exec_vars, call_hist, user_i,
                                user_success_count, total_success>>
       ELSE /\ total_success' = total_success + user_success_count
            /\ IF user_i < Len(target_users)
               THEN /\ user_i' = user_i + 1 /\ act_i' = 1
                    /\ user_success_count' = 0
                    /\ UNCHANGED main_pc
               ELSE /\ main_pc' = "exit0"
                    /\ UNCHANGED <<user_i, act_i, user_success_count>>
            /\ UNCHANGED <<op_vars, exec_vars, call_hist>>
    /\ UNCHANGED <<throttle_vars, wait_hist, logging, tenant, run_vars, requested,
                   users_file, identifiers, quiet, yes, confirm, target_users, attempted, agg_vars, exp_vars>>

\* The mutation called for block act_i returned.
MutationDone ==
    /\ main_pc = "mutating" /\ oppc = "done"
    /\ user_success_count' = user_success_count + Counts(opret)
    /\ attempted' = Append(attempted, <<target_users[user_i], op, opret>>)
    /\ act_i' = act_i + 1
    /\ main_pc' = "mutate"
    /\ UNCHANGED <<throttle_vars, exec_vars, call_hist, wait_hist, op_vars, logging,
                   tenant, run_vars, requested, users_file, identifiers, quiet, yes, confirm, target_users,
                   user_i, total_success, agg_vars, exp_vars>>

\* ------------------------------------------------------------ the interrupt signal
\* Whether an except clause catches an exception: KeyboardInterrupt is no
\* Exception, so "except Exception" lets it pass; a bare "except:" catches it.
Catches(clause, exc) ==
    clause = "bare" \/ (clause = "Exception" /\ exc # "KeyboardInterrupt")

\* KeyboardInterrupt is raised at the point the run has reached, outside the
\* try statement of export_to_excel's column-width loop: every except clause
\* on the way up names Exception, so every frame up to main is left and the
\* run exits with status 1.
Interrupt ==
    /\ main_pc \notin {"exit0", "exit1"}
    /\ ~interrupted
    /\ interrupted' = TRUE
    /\ ~Catches("Exception", "KeyboardInterrupt")
    /\ main_pc' = "exit1"
    /\ oppc' = "idle"
    /\ CallConsumed
    /\ UNCHANGED <<throttle_vars, wait_hist, op, page, acc, opret, got, wire,
                   op_retried, op_failed, nops, logging, tenant, credentials, token,
                   token_exchanges, cli_vars, agg_vars, exp_vars>>

\* KeyboardInterrupt is raised inside the try statement of the column-width
\* loop of export_to_excel: its bare except clause catches it and the loop
\* goes on.
InterruptInWidthLoop ==
    /\ exp_pc = "widths"
    /\ ~interrupted
    /\ interrupted' = TRUE
    /\ Catches("bare", "KeyboardInterrupt")
    /\ UNCHANGED <<main_pc, throttle_vars, exec_vars, call_hist, wait_hist, op_vars,
                   logging, tenant, credentials, token, token_exchanges, cli_vars,
                   agg_vars, exp_vars>>

\* ------------------------------------------------------------ specifications
\* The listings, without the per-call record.
Next ==
    \/ OverrideRateLimit
    \/ RateLimitWait
    \/ _retry_with_backoff
    \/ get_all_users
    \/ get_available_roles
    \/ get_available_organizations
    \/ get_user_organization_roles

Spec == Init /\ [][Next]_vars

\* The same from the start of main, the exporter not yet built.
InitRun == Unbuilt /\ ListingRun /\ logging = FALSE

NextRun ==
    \/ __init__
    \/ Next

SpecRun == InitRun /\ [][NextRun]_vars

\* Single calls of the executor, with the per-call record.
InitExec == Construct /\ ListingRun /\ logging = TRUE

NextExec ==
    \/ OverrideRateLimit
    \/ RateLimitWait
    \/ _retry_with_backoff
    \/ get_user_by_id

SpecExec == InitExec /\ [][NextExec]_vars

\* A run of main with mutation options and --yes, for one user or for a file
\* of users.
MutationRun ==
    /\ tenant = "small"
    /\ requested \in RequestedSets
    /\ users_file \in BOOLEAN
    /\ identifiers \in (IF users_file THEN IdentifierFiles ELSE SingleIdentifiers)
    /\ quiet = FALSE /\ yes = TRUE

InitBulk == Construct /\ MutationRun /\ logging = FALSE

NextBulk ==
    \/ OverrideRateLimit
    \/ RateLimitWait
    \/ _retry_with_backoff
    \/ ResolveUsers
    \/ get_user_by_id_called
    \/ get_user_by_email
    \/ UserResolved
    \/ MutateNext
    \/ assign_global_role
    \/ assign_organization_role
    \/ remove_global_role
    \/ remove_organization_role
    \/ assign_user_to_organization
    \/ remove_user_from_organization
    \/ MutationDone
    \/ Interrupt

SpecBulk == InitBulk /\ [][NextBulk]_vars

\* A run of main with one mutation option and a file naming one user, without
\* --yes, with or without --quiet.
ConfirmRun ==
    /\ tenant = "small"
    /\ requested = {"assign_global_role"}
    /\ users_file = TRUE /\ identifiers = <<"id">>
    /\ quiet \in BOOLEAN /\ yes = FALSE

InitConfirm == Construct /\ ConfirmRun /\ logging = FALSE

NextConfirm ==
    \/ OverrideRateLimit
    \/ RateLimitWait
    \/ _retry_with_backoff
    \/ ResolveUsers
    \/ get_user_by_id_called
    \/ UserResolved
    \/ MutateNext
    \/ assign_global_role
    \/ MutationDone

SpecConfirm == InitConfirm /\ [][NextConfirm]_vars

\* A run of main that queries one user of a small tenant.
QueryRun ==
    /\ tenant = "small"
    /\ requested = {} /\ users_file = FALSE /\ identifiers = <<"id">>
    /\ quiet = FALSE /\ yes = FALSE

InitQuery == Construct /\ QueryRun /\ logging = FALSE

NextQuery ==
    \/ OverrideRateLimit
    \/ RateLimitWait
    \/ _retry_with_backoff
    \/ get_user_complete_data
    \/ get_user_organizations
    \/ get_user_roles
    \/ get_user_organization_roles_called
    \/ Interrupt

SpecQuery == InitQuery /\ [][NextQuery]_vars

\* A run of exporter.main: the tabular export of a small tenant, with
\* AUTH0_RATE_LIMIT_PER_SEC left at its default.
DefaultRate == 2
ExportRun ==
    /\ tenant = "small"
    /\ rate_limit_per_second = DefaultRate
    /\ requested = {} /\ users_file = FALSE /\ identifiers = <<>>
    /\ quiet = FALSE /\ yes = FALSE

InitExport == Construct /\ ExportRun /\ logging = FALSE

NextExport ==
    \/ RateLimitWait
    \/ _retry_with_backoff
    \/ export_to_excel
    \/ get_all_users_called
    \/ get_user_roles
    \/ get_user_organizations
    \/ get_user_organization_roles_called
    \/ Interrupt
    \/ InterruptInWidthLoop

SpecExport == InitExport /\ [][NextExport]_vars

\* ------------------------------------------------------------ properties
Terminal == epc \in {"success", "failed"}

\* outcomes begins with k rate-limit errors followed by a return without error.
RateLimitedThenOk(k) ==
    /\ Len(outcomes) >= k + 1
    /\ \A i \in 1..k : outcomes[i] = "rl"
    /\ outcomes[k + 1] = "ok"

\* min(m * 1.5^k, 2.0)
WidenedBy(m, k) ==
    LET w == Frac(m.n * Pow(3, k), m.d * Pow(2, k))
    IN  IF FracLess(Frac(CeilingSecs, 1), w) THEN Frac(CeilingSecs, 1) ELSE w

\* C1: the request time recorded by a _rate_limit_wait is at least
\* min_time_between_requests (as it stood during that wait) after the one
\* recorded by the wait before it, across the retries of one call and across calls.
C1_ThrottleGap ==
    (epc = "call" /\ waits >= 2) => FracLeq(min_at_wait, Frac(gap, TicksPerSec))

\* C1 witness: a second or later wait, inside a retry, that had to sleep.
C1_Witness == epc = "call" /\ waits >= 2 /\ attempt > 0 /\ slept > 0

\* C2 as claimed: once requests may start, min_time_between_requests never
\* decreases in a step and never exceeds the ceiling of 2.0 seconds, for every
\* accepted rate.
C2_MinIntervalMonotone ==
    [][main_pc = "ready" =>
          /\ FracLeq(min_time_between_requests, min_time_between_requests')
          /\ FracLeq(min_time_between_requests', Frac(CeilingSecs, 1))]_vars

\* C3 as claimed: when func fails with a rate-limit error on the first k
\* attempts (0 <= k < max_retries) and then returns without error, the call
\* ends in success with that result after exactly k backoff sleeps, k
\* widenings and k + 1 invocations, min_time_between_requests being
\* min(initial * 1.5^k, 2.0).
C3_RateLimitedThenSuccess ==
    \A k \in 0..(max_retries - 1) :
        RateLimitedThenOk(k) =>
            /\ epc = "success"
            /\ result.kind # "none"
            /\ Len(outcomes) = k + 1
            /\ Len(sleeps) = k
            /\ widenings = k
            /\ FracEq(min_time_between_requests, WidenedBy(min0, k))

\* C4: when func fails with a generic error on all max_retries attempts, the
\* call has invoked it exactly max_retries times, has slept max_retries - 1
\* backoff delays (after attempts 0 .. max_retries - 2, none after the last)
\* and raises the very error of the last attempt.
C4_GenericExhaustion ==
    (Len(outcomes) >= max_retries /\ \A i \in 1..max_retries : outcomes[i] = "gen") =>
        /\ epc = "failed"
        /\ Len(outcomes) = max_retries
        /\ error = RemoteError("gen", max_retries - 1)
        /\ Len(sleeps) = max_retries - 1
        /\ \A i \in 1..Len(sleeps) : sleeps[i][1] = i - 1
        /\ widenings = 0

\* C4 witness: a call that failed after max_retries generic errors.
C4_Witness ==
    /\ epc = "failed"
    /\ Len(outcomes) = max_retries
    /\ \A i \in 1..max_retries : outcomes[i] = "gen"

\* C5: a call never invokes func more than max_retries times whatever mix of
\* rate-limit errors, generic errors and returns it meets (every failure uses
\* up one turn of the same loop), it is over in exactly one of success (a
\* result, no error) and failed (an error, no result), and while it is not
\* over another step of it can always be taken, each invocation bringing the
\* attempt counter one closer to max_retries.
C5_BoundedTermination ==
    /\ Len(outcomes) <= max_retries
    /\ epc \in {"wait", "call"} =>
          /\ attempt < max_retries
          /\ Len(outcomes) = attempt
          /\ result = NoResult /\ error = NoError
          /\ ENABLED (RateLimitWait \/ _retry_with_backoff)
    /\ epc = "success" => (result # NoResult /\ error = NoError)
    /\ epc = "failed" => (result = NoResult /\ error # NoError)

\* C5 witness: a call that used all max_retries turns on a mix of both
\* failure classes and then failed.
C5_Witness ==
    /\ epc = "failed"
    /\ Len(outcomes) = max_retries
    /\ \E i, j \in 1..max_retries : outcomes[i] = "rl" /\ outcomes[j] = "gen"

\* C6: the backoff delay slept after attempt n lies in [2^n, 2^n + 1) seconds
\* for rate-limit and for generic failures alike, so the delays of one call
\* grow strictly from one attempt to the next.
C6_BackoffDelayRange ==
    /\ \A i \in 1..Len(sleeps) :
          /\ Pow(2, sleeps[i][1]) * TicksPerSec <= sleeps[i][2]
          /\ sleeps[i][2] < (Pow(2, sleeps[i][1]) + 1) * TicksPerSec
    /\ \A i \in 1..Len(sleeps) - 1 :
          /\ sleeps[i][1] < sleeps[i + 1][1]
          /\ sleeps[i][2] < sleeps[i + 1][2]

\* C6 witness: four backoff sleeps in one call, after failures of both classes,
\* the first with the largest jitter.
C6_Witness ==
    /\ Len(sleeps) = max_retries - 1
    /\ sleeps[1][2] = BackoffDelay(0, TicksPerSec - 1)
    /\ \E i, j \in 1..Len(outcomes) : outcomes[i] = "rl" /\ outcomes[j] = "gen"

\* The items of pages 0 .. Len(sizes) - 1 of the given sizes, in server order.
RECURSIVE ConcatPages(_)
ConcatPages(sizes) ==
    IF Len(sizes) = 0 THEN <<>>
    ELSE ConcatPages(SubSeq(sizes, 1, Len(sizes) - 1))
           \o PageItems(Len(sizes) - 1, sizes[Len(sizes)])

\* The page indices 0 .. k - 1 in order.
FirstPages(k) == [i \in 1..k |-> i - 1]

\* Every invocation so far returned a page without error: no retry took place
\* and every executor call made was answered by a dict carrying the field.
OnlyPages == ~op_retried /\ op_failed = "no"

\* C7: get_user_organization_roles, served k pages of 50 roles and then a page
\* of fewer than 50 without errors, returns the k + 1 pages concatenated in
\* server order, has requested the pages 0 .. k once each, and requests nothing
\* after the short page; it does not stop at a page of 50.
C7_OrgRolesShortPageStop ==
    (op = "get_user_organization_roles" /\ OnlyPages) =>
        /\ \A j \in 1..Len(got) :
              got[j] < OrgRolePageSize =>
                  /\ j = Len(got)
                  /\ oppc = "done"
                  /\ opret = ConcatPages(got)
                  /\ wire = FirstPages(j)
        /\ (oppc = "done" /\ Len(got) = Len(wire)) => got[Len(got)] < OrgRolePageSize

\* C7 witness: pages of 50, 50 and 30 roles gave 130 roles in three fetches.
C7_Witness ==
    /\ op = "get_user_organization_roles" /\ OnlyPages /\ oppc = "done"
    /\ got = <<OrgRolePageSize, OrgRolePageSize, 30>>
    /\ Len(opret) = 130 /\ wire = <<0, 1, 2>>

\* C8: a top-level listing, served k non-empty pages and then an empty page
\* without errors, returns the k pages concatenated in server order, has
\* requested the pages 0 .. k once each and stops there; a page shorter than
\* the page size of 100 does not stop it.
C8_TopLevelEmptyPageStop ==
    (op \in TopListings /\ OnlyPages) =>
        /\ \A j \in 1..Len(got) :
              got[j] = 0 =>
                  /\ j = Len(got)
                  /\ oppc = "done"
                  /\ opret = ConcatPages(got)
                  /\ wire = FirstPages(j)
        /\ (oppc = "done" /\ Len(got) = Len(wire)) => got[Len(got)] = 0

\* C8 witness: pages of 7, 100 and 0 items gave 107 items in three fetches.
C8_Witness ==
    /\ op \in TopListings /\ OnlyPages /\ oppc = "done"
    /\ got = <<7, per_page, 0>>
    /\ Len(opret) = 107 /\ wire = <<0, 1, 2>>

\* C9: when the executor raises on the fetch of page k after k pages were
\* fetched, get_all_users returns (it does not raise) exactly the users of the
\* pages 0 .. k - 1 in order and requests no further page.
C9_UsersPartialOnFailure ==
    (op = "get_all_users" /\ oppc = "done" /\ op_failed = "executor") =>
        /\ opret = ConcatPages(got)
        /\ wire = FirstPages(Len(got) + 1)
        /\ \A j \in 1..Len(got) : got[j] > 0

\* C9 witness: the third fetch failed after two pages had been gathered.
C9_Witness ==
    /\ op = "get_all_users" /\ oppc = "done" /\ op_failed = "executor"
    /\ Len(got) = 2 /\ Len(opret) > 0

\* C10 as claimed: when the executor raises on a later page after k >= 1 pages
\* were fetched, the listings of roles, of organizations and of a member's
\* organization roles return the items of those k pages.
C10_ListingsPartialOnFailure ==
    (/\ op \in {"get_available_roles", "get_available_organizations",
               "get_user_organization_roles"}
     /\ oppc = "done" /\ op_failed = "executor" /\ Len(got) >= 1) =>
        opret = ConcatPages(got)

\* The methods main calls for one target user, in the order of its blocks.
RequestedMethods ==
    LET given == SelectSeq(MutationOptions, LAMBDA o : o \in requested)
    IN  [k \in 1..Len(given) |-> MethodOf[given[k]]]

\* Every method of RequestedMethods for every user of targets, user by user.
ExpectedAttempts(targets) ==
    LET n == Len(RequestedMethods)
    IN  [k \in 1..(Len(targets) * n) |->
            <<targets[((k - 1) \div n) + 1], RequestedMethods[((k - 1) % n) + 1]>>]

\* How many of the mutations called so far returned True.
ReturnedTrue == Cardinality({k \in 1..Len(attempted) : attempted[k][3]})

\* C11: a mutation operation makes one executor call and, unless the run is
\* interrupted, always returns to its caller: True exactly when that call
\* ended in success, False exactly when it ended in failure, whatever the
\* class of the error.
C11_MutationsNeverRaise ==
    [][(op \in Mutations /\ oppc = "await" /\ oppc' # "await" /\ ~interrupted') =>
          /\ oppc' = "done"
          /\ wire = <<0>>
          /\ epc \in {"success", "failed"}
          /\ (opret' = TRUE) <=> (epc = "success")
          /\ (opret' = FALSE) <=> (epc = "failed")]_vars

\* C11 witness: a mutation returned False after its executor call had failed,
\* a mutation called before it having returned True.
C11_Witness ==
    /\ op \in Mutations /\ oppc = "done" /\ opret = FALSE /\ op_failed = "executor"
    /\ \E k \in 1..Len(attempted) : attempted[k][3]

\* C16: in a mutation run the mutations called so far are, in order, the
\* requested methods of each resolved target user, the users taken in file
\* order, each method once per user, whatever the earlier ones returned; when
\* the loop is over none is missing.
C16_EveryActionAttempted ==
    LET expected == ExpectedAttempts(target_users)
    IN  /\ \A k \in 1..Len(target_users) - 1 : target_users[k] < target_users[k + 1]
        /\ Len(attempted) <= Len(expected)
        /\ \A k \in 1..Len(attempted) :
              attempted[k][1] = expected[k][1] /\ attempted[k][2] = expected[k][2]
        /\ (main_pc = "exit0" /\ requested # {}) => Len(attempted) = Len(expected)

\* C16 witness: a file run over two users and three methods ended after the
\* first mutation of the first user had returned False and a later one True.
C16_Witness ==
    /\ main_pc = "exit0" /\ users_file /\ Len(target_users) = 2
    /\ Len(attempted) = 6
    /\ ~attempted[1][3] /\ attempted[4][3]

\* C17: the success count main reports is the number of mutations that
\* returned True, at most target users times requested actions, and a run
\* whose mutations were all called ends with status zero whatever they
\* returned.
C17_SuccessCount ==
    /\ main_pc \in {"mutate", "mutating"} =>
          total_success + user_success_count = ReturnedTrue
    /\ main_pc = "exit0" =>
          /\ total_success = ReturnedTrue
          /\ total_success <= Len(target_users) * Cardinality(requested)
    /\ (/\ main_pc \in {"exit0", "exit1"} /\ ~interrupted
        /\ Len(target_users) > 0
        /\ Len(attempted) = Len(ExpectedAttempts(target_users))) => main_pc = "exit0"

\* C17 witness: a run of two users ended with status zero although every
\* mutation returned False.
C17_Witness ==
    /\ main_pc = "exit0" /\ Len(target_users) = 2 /\ total_success = 0
    /\ Len(attempted) >= 2
    /\ \A k \in 1..Len(attempted) : ~attempted[k][3]

\* The sub-fetches get_user_complete_data makes for a user whose membership
\* sub-fetch returned `memberships`, in order.
ExpectedSubFetches(memberships) ==
    <<"get_user_organizations", "get_user_roles">>
      \o [k \in 1..Len(memberships) |-> "get_user_organization_roles"]

\* C12: when get_user_complete_data is over it has returned a record and has
\* made every sub-fetch (memberships, global roles, and the roles of each
\* organization of the membership list, in that order), whichever of them
\* failed; a sub-fetch that failed gave the empty list, one that did not gave
\* exactly what the tenant answered, and the record holds each of these
\* results in its own place.
C12_SubFetchFailureIsLocal ==
    agg_pc = "done" =>
        LET memberships == sub_log[1].ret
        IN  /\ complete_data.user # "none"
            /\ Len(sub_log) = 2 + Len(memberships)
            /\ \A k \in 1..Len(sub_log) :
                  /\ sub_log[k].fetch = ExpectedSubFetches(memberships)[k]
                  /\ sub_log[k].org = IF k > 2 THEN memberships[k - 2] ELSE 0
                  /\ sub_log[k].failed => sub_log[k].ret = <<>>
                  /\ ~sub_log[k].failed => sub_log[k].ret = ConcatPages(sub_log[k].got)
            /\ complete_data.global_roles = sub_log[2].ret
            /\ Len(complete_data.organizations) = Len(memberships)
            /\ \A k \in 1..Len(memberships) :
                  complete_data.organizations[k] =
                      [organization |-> memberships[k], roles |-> sub_log[k + 2].ret]

\* C12 witness: of two organizations the role fetch of the first failed on its
\* second page, after a full page; the record still holds the global role and
\* the role of the second organization.
C12_Witness ==
    /\ agg_pc = "done" /\ Len(sub_log) = 4
    /\ sub_log[3].failed /\ sub_log[3].got = <<OrgRolePageSize>>
    /\ ~sub_log[4].failed
    /\ Len(complete_data.global_roles) = 1
    /\ complete_data.organizations[1].roles = <<>>
    /\ Len(complete_data.organizations[2].roles) = 1

C14_TotalsMatch ==
    agg_pc = "done" =>
        LET entries == complete_data.organizations
            pairs == UNION { {<<k, j>> : j \in 1..Len(entries[k].roles)} :
                              k \in 1..Len(entries) }
        IN  /\ complete_data.metadata.total_organizations = Len(entries)
            /\ complete_data.metadata.total_global_roles = Len(complete_data.global_roles)
            /\ complete_data.metadata.total_org_roles = Cardinality(pairs)

\* C14 witness: two organizations with one role each and one global role give
\* the totals 2, 1 and 2.
C14_Witness ==
    /\ agg_pc = "done"
    /\ Len(complete_data.organizations) = 2
    /\ \A k \in 1..2 : Len(complete_data.organizations[k].roles) = 1
    /\ Len(complete_data.global_roles) = 1
    /\ complete_data.metadata =
          [total_organizations |-> 2, total_global_roles |-> 1, total_org_roles |-> 2]

\* The rows of export_data that belong to user number u of the listing.
RowsOf(u) == SelectSeq(export_data, LAMBDA row : row.user_data.user = users[u])

\* max(1, number of organizations) for user number u, from what the
\* membership sub-fetch made for that user returned.
RowsDue(u) == IF Len(sub_log[u].ret) = 0 THEN 1 ELSE Len(sub_log[u].ret)

\* C15: when export_to_excel has gathered its rows, every listed user has one
\* row per organization the membership sub-fetch returned for that user, in
\* that order and with the organization columns set, or one row with the
\* organization columns None when it returned none; the rows of one user
\* agree in every other column; the rows stand in listing order and their
\* number is the sum over the users of max(1, number of organizations).
C15_RowsPerUser ==
    exp_pc \in {"widths", "done"} =>
        /\ Len(sub_log) = Len(users)
        /\ \A u \in 1..Len(users) :
              LET rows == RowsOf(u)
                  memberships == sub_log[u].ret
              IN  /\ Len(rows) = RowsDue(u)
                  /\ \A j, k \in 1..Len(rows) : rows[j].user_data = rows[k].user_data
                  /\ IF memberships = <<>>
                     THEN /\ rows[1].organization = <<>>
                          /\ rows[1].organization_roles = <<>>
                     ELSE \A k \in 1..Len(rows) :
                            /\ rows[k].organization = <<memberships[k]>>
                            /\ Len(rows[k].organization_roles) = 1
        /\ Len(export_data) =
              Cardinality(UNION { {<<u, k>> : k \in 1..RowsDue(u)} : u \in 1..Len(users) })
        /\ \A j, k \in 1..Len(export_data) :
              j < k => export_data[j].user_data.user <= export_data[k].user_data.user

\* C15 witness: of two listed users the first is in two organizations and the
\* second in none; the export has three rows, the first two differing in the
\* organization columns only.
C15_Witness ==
    /\ exp_pc = "done" /\ Len(users) = 2
    /\ Len(sub_log[1].ret) = 2 /\ sub_log[2].ret = <<>>
    /\ Len(export_data) = 3
    /\ export_data[1].user_data = export_data[2].user_data
    /\ export_data[1].organization # export_data[2].organization
    /\ export_data[3].organization = <<>>

\* C18 as claimed: once an interrupt signal has arrived during a run, no call
\* of the executor is in progress any more and the run does not end with
\* status 0.
C18_InterruptEndsRun ==
    interrupted => (epc = "idle" /\ main_pc # "exit0")

\* No request has been made of the tenant's administrative API in this run.
NoApiCall ==
    /\ waits = 0 /\ epc = "idle" /\ oppc = "idle" /\ op = "none"
    /\ nops = 0 /\ wire = <<>>

\* C19: a run makes no token exchange before the constructor is called or
\* when a required credential is missing, and exactly one otherwise, whatever
\* follows; when a credential is missing or the exchange failed the run has
\* made no request of the administrative API and, the constructor once
\* called, has ended with status 1; a request is made only with the token
\* held.
C19_TokenExchangeOnce ==
    /\ token_exchanges =
          (IF main_pc = "start" \/ credentials = "missing" THEN 0 ELSE 1)
    /\ (credentials = "missing" \/ token = "failed") =>
          (NoApiCall /\ main_pc \in {"start", "exit1"})
    /\ token = "failed" => main_pc = "exit1"
    /\ ~NoApiCall => token = "held"

\* C19 witness: the one exchange failed and the run ended with status 1.
C19_Witness ==
    /\ credentials = "present" /\ token = "failed" /\ token_exchanges = 1
    /\ main_pc = "exit1" /\ NoApiCall

\* Steps get_user_organization_roles can still take at most, counted from
\* its position: the pages the tenant can still fill, the turns the executor
\* call in hand has left, and where the turn in hand stands.
TurnSteps == 2 * max_retries + 3
StepsLeft ==
    IF oppc = "done" THEN 0
    ELSE (MaxPages - page) * TurnSteps
           + (IF oppc = "loop" THEN 2 * max_retries + 2
              ELSE IF epc = "wait" THEN 2 * (max_retries - attempt) + 1
              ELSE IF epc = "call" THEN 2 * (max_retries - attempt)
              ELSE 1)

\* C20: against a tenant that fills at most MaxPages pages of organization
\* roles, and whose requests may fail at any attempt, get_user_organization_roles
\* never follows more than MaxPages full pages; until it has returned it can
\* always take a step, and every step it takes brings it closer to its return;
\* it returns a list and never raises, and when the executor failed for good
\* on any page the list it returns is empty.
C20_OrgRolesTerminates ==
    /\ [](op = "get_user_organization_roles" =>
            /\ page <= MaxPages
            /\ Len(wire) = (IF oppc = "loop" THEN page ELSE page + 1)
            /\ oppc = "loop" => ENABLED Fetch("get_user_organization_roles")
            /\ oppc = "await" =>
                  IF Terminal
                  THEN ENABLED (OrgRolesTurn
                                  \/ CallRaised("get_user_organization_roles",
                                                OnOrgRolesError(acc)))
                  ELSE ENABLED (RateLimitWait \/ _retry_with_backoff)
            /\ oppc = "done" =>
                  /\ op_failed \in {"no", "executor"}
                  /\ op_failed = "executor" => opret = <<>>)
    /\ [][(op = "get_user_organization_roles" /\ oppc # "done") =>
            (op' = op /\ StepsLeft' < StepsLeft)]_vars

\* C20 witness: after two full pages every attempt at the third failed; the
\* fetch returned the empty list.
C20_Witness ==
    /\ op = "get_user_organization_roles" /\ oppc = "done"
    /\ op_failed = "executor"
    /\ got = <<OrgRolePageSize, OrgRolePageSize>> /\ wire = <<0, 1, 2>>
    /\ opret = <<>>

\* C21: func is invoked only from the position _rate_limit_wait leaves the
\* executor in, and that position is entered only by _rate_limit_wait, which
\* records the request time on the exporter's one throttle state; the wait is
\* entered once per attempt, at the start of an executor call or after a
\* failed attempt, and is left only for the invocation (or by an interrupt).
\* So every attempt of every executor call passes the throttle exactly once,
\* immediately before the invocation.
C21_EveryInvocationThrottled ==
    [][/\ (epc' = "call" /\ epc # "call") =>
             /\ epc = "wait"
             /\ elapsed' = 0
             /\ waits' = (IF waits < 2 THEN waits + 1 ELSE waits)
             /\ UNCHANGED <<attempt, op, wire, min_time_between_requests>>
       /\ (epc = "call" /\ epc' # "call") =>
             (epc' \in {"wait", "success", "failed"} \/ interrupted')
       /\ (epc = "wait" /\ epc' # "wait") => (epc' = "call" \/ interrupted')
       /\ (epc' = "wait" /\ epc # "wait") =>
             \/ epc = "idle" /\ attempt' = 0 /\ wire' = Append(wire, page)
             \/ epc = "call" /\ attempt' = attempt + 1 /\ wire' = wire]_vars

\* C21 witness: the second attempt of a mutation's executor call is about to
\* invoke func, the throttle having been passed for the lookup, for the first
\* attempt and for this one.
C21_Witness ==
    /\ op \in Mutations /\ epc = "call" /\ attempt = 1
    /\ waits >= 2 /\ elapsed = 0
    /\ target_users # <<>>

\* C22: at every moment of get_user_complete_data the sub-fetches over and
\* the one in hand are, in order, the membership request, the global-roles
\* request and the role requests of the organizations in the order the
\* membership response listed them; the two single requests are made once,
\* and the role pages of an organization are requested in rising order from
\* page 0, all of them within the one sub-fetch of that organization, which
\* is over before the next begins.
C22_WireOrder ==
    agg_pc # "idle" =>
        LET memberships == IF sub_log = <<>> THEN <<>> ELSE sub_log[1].ret
            expected == ExpectedSubFetches(memberships)
        IN  /\ \A k \in 1..Len(sub_log) :
                  /\ sub_log[k].fetch = expected[k]
                  /\ sub_log[k].org = (IF k > 2 THEN memberships[k - 2] ELSE 0)
                  /\ sub_log[k].wire = FirstPages(Len(sub_log[k].wire))
                  /\ Len(sub_log[k].wire) >= 1
                  /\ k <= 2 => sub_log[k].wire = <<0>>
            /\ agg_pc # "done" =>
                  /\ Len(sub_log) < Len(expected)
                  /\ op = expected[Len(sub_log) + 1]
                  /\ wire = FirstPages(Len(wire))
                  /\ Len(sub_log) < 2 => Len(wire) <= 1
            /\ agg_pc = "done" => Len(sub_log) = Len(expected)

\* C22 witness: of two organizations the first took two role pages and the
\* second one; the requests were memberships, global roles, pages 0 and 1 of
\* the first organization, page 0 of the second.
C22_Witness ==
    /\ agg_pc = "done" /\ Len(sub_log) = 4
    /\ sub_log[1].ret = <<1, 2>>
    /\ sub_log[3].org = 1 /\ sub_log[3].wire = <<0, 1>>
    /\ sub_log[4].org = 2 /\ sub_log[4].wire = <<0>>

\* The latest invocation of func returned without error in this step.
FuncReturned ==
    /\ epc = "call"
    /\ Len(outcomes') = Len(outcomes) + 1
    /\ outcomes'[Len(outcomes')] = "ok"

\* C23 as claimed: when func returns without error the call ends in success
\* with the value returned, and if that value is an envelope carrying a
\* remaining-quota hint the executor has slept one extra second exactly when
\* the hint reads below 5, and not at all otherwise.
C23_QuotaHintThenSuccess ==
    [][FuncReturned =>
          /\ epc' = "success"
          /\ result' # NoResult
          /\ LET low == result'.kind = "envelope" /\ Truthy(result'.hint)
                           /\ IntOf(result'.hint) < LowWaterMark
                 extra == IF low THEN ExtraDelaySecs * TicksPerSec ELSE 0
             IN  /\ extra_sleeps' = extra_sleeps + (IF low THEN 1 ELSE 0)
                 /\ elapsed' - elapsed - extra \in CallTicks]_vars

\* What the latest invocation of func did, once an invocation is recorded.
LatestOutcome(log) == log[Len(log)]

\* C24: _rate_limit_wait, an attempt that ends the call in success and an
\* attempt that fails with a generic error, retried or final, leave
\* min_time_between_requests as it is; once requests may start it changes
\* only where the except clause handles an error whose text names a rate
\* limit (raised by func, or by int() on a hint holding '429'), and then to
\* min(1.5 times its value, 2.0).
C24_MinIntervalFrame ==
    [][/\ (epc = "wait" /\ epc' = "call") => UNCHANGED min_time_between_requests
       /\ (epc = "call" /\ epc' = "success") => UNCHANGED min_time_between_requests
       /\ (epc = "call" /\ Len(outcomes') > Len(outcomes)
             /\ LatestOutcome(outcomes') = "gen") =>
             UNCHANGED min_time_between_requests
       /\ (main_pc = "ready" /\ min_time_between_requests' # min_time_between_requests) =>
             /\ epc = "call" /\ epc' \in {"wait", "failed"}
             /\ Len(outcomes') > Len(outcomes)
             /\ LatestOutcome(outcomes') \in {"rl", "ok"}
             /\ Len(sleeps') = Len(sleeps) + 1
             /\ min_time_between_requests' = Widen(min_time_between_requests)]_vars

\* C24 witness: a call that failed twice with a generic error and then
\* succeeded, the interval being what it was when the call began.
C24_Witness ==
    /\ epc = "success" /\ outcomes = <<"gen", "gen", "ok">>
    /\ min_time_between_requests = min0
    /\ waits >= 2

\* C25: every call of the executor begins at attempt 0 with nothing invoked
\* and nothing slept, whatever earlier calls met, and with
\* min_time_between_requests as the earlier calls left it; within a call the
\* attempt counter is the number of invocations that failed, never more than
\* max_retries - 1, and the first backoff sleep of a call follows attempt 0
\* and lasts at least 1 and less than 2 seconds.
C25_AttemptCounterPerCall ==
    /\ [](/\ epc \in {"wait", "call"} =>
               (attempt = Len(outcomes) /\ attempt < max_retries)
          /\ Terminal => attempt = Len(outcomes) - 1
          /\ Len(sleeps) >= 1 =>
               /\ sleeps[1][1] = 0
               /\ TicksPerSec <= sleeps[1][2] /\ sleeps[1][2] < 2 * TicksPerSec)
    /\ [][(epc = "idle" /\ epc' # "idle") =>
            /\ epc' = "wait" /\ attempt' = 0
            /\ outcomes' = <<>> /\ sleeps' = <<>> /\ widenings' = 0
            /\ min_time_between_requests' = min_time_between_requests
            /\ min0' = min_time_between_requests]_vars

\* C25 witness: the second call of a run at a positive rate used all
\* max_retries attempts, its first backoff being that of attempt 0, after an
\* earlier call whose rate-limit errors had widened the interval the second
\* call began with.
C25_Witness ==
    /\ nops = 2 /\ epc = "failed" /\ Len(outcomes) = max_retries
    /\ sleeps[1][1] = 0
    /\ rate_limit_per_second > 0
    /\ FracLess(Reciprocal(rate_limit_per_second), min0)

\* C26: when the invocation of the attempt with index max_retries - 1 raises a
\* rate-limit error, the executor sleeps the backoff delay of that attempt
\* (at least 2^(max_retries - 1) seconds) and widens the interval all the
\* same, invokes nothing more, and the call fails with the error made at the
\* end of _retry_with_backoff, not with the error func raised.
C26_LastAttemptRateLimited ==
    /\ []((Len(outcomes) = max_retries /\ LatestOutcome(outcomes) = "rl") =>
            /\ epc = "failed"
            /\ error = FailedAfterError
            /\ error # RemoteError("rl", max_retries - 1)
            /\ Len(sleeps) >= 1
            /\ sleeps[Len(sleeps)][1] = max_retries - 1
            /\ sleeps[Len(sleeps)][2] >= Pow(2, max_retries - 1) * TicksPerSec
            /\ sleeps[Len(sleeps)][2] < (Pow(2, max_retries - 1) + 1) * TicksPerSec)
    /\ [][(epc = "call" /\ attempt = max_retries - 1
             /\ Len(outcomes') > Len(outcomes) /\ LatestOutcome(outcomes') = "rl") =>
            /\ epc' = "failed"
            /\ Len(sleeps') = Len(sleeps) + 1
            /\ elapsed' >= elapsed + Pow(2, max_retries - 1) * TicksPerSec
            /\ widenings' = widenings + 1
            /\ min_time_between_requests' = Widen(min_time_between_requests)]_vars

\* C26 witness: all max_retries invocations of a call raised a rate-limit
\* error; five backoff sleeps and five widenings later the call failed with
\* the executor's own error.
C26_Witness ==
    /\ epc = "failed" /\ outcomes = <<"rl", "rl", "rl", "rl", "rl">>
    /\ error = FailedAfterError
    /\ Len(sleeps) = max_retries /\ widenings = max_retries

\* C27 as claimed: within one call of the executor no invocation of func
\* follows an invocation that returned without error, so at most one
\* invocation per call returns.
C27_NoInvocationAfterReturn ==
    \A i \in 1..Len(outcomes) - 1 : outcomes[i] # "ok"

\* C28 as claimed: in a run with a users file and without --yes, a lookup or
\* a mutation is called only after the confirmation prompt was answered yes.
C28_ConfirmedBeforeCalls ==
    (users_file /\ ~yes /\ op # "none") => confirm = "yes"

\* C29: an identifier becomes a target user only in the step in which its
\* lookup has returned a user, and mutations are called for target users
\* only.  In single-user mode a lookup that returned no user ends the run
\* with status 1; with a users file such an identifier is passed over and the
\* next one looked up; a run left without target users ends with status 1
\* and has called no mutation.
C29_MutationsOnlyForResolved ==
    /\ [](/\ \A k \in 1..Len(attempted) :
                \E j \in 1..Len(target_users) : attempted[k][1] = target_users[j]
          /\ (op \in Mutations \/ main_pc \in {"mutate", "mutating"}) =>
                (target_users # <<>> /\ user_i \in 1..Len(target_users))
          /\ target_users = <<>> =>
                (attempted = <<>> /\ op \notin Mutations /\ main_pc # "exit0"))
    /\ [][/\ target_users' # target_users =>
               /\ main_pc = "resolving" /\ oppc = "done"
               /\ op \in {"get_user_by_id", "get_user_by_email"}
               /\ opret # <<>> /\ op_failed = "no"
               /\ target_users' = Append(target_users, user_i)
          /\ (main_pc = "resolving" /\ oppc = "done" /\ opret = <<>> /\ ~interrupted') =>
               /\ UNCHANGED <<target_users, attempted>>
               /\ ~users_file => main_pc' = "exit1"
               /\ (users_file /\ user_i < Len(identifiers)) =>
                     /\ main_pc' = "resolving" /\ user_i' = user_i + 1
                     /\ op' = LookupOf(identifiers[user_i + 1]) /\ oppc' = "loop"
               /\ (users_file /\ user_i = Len(identifiers)) =>
                     main_pc' = (IF target_users = <<>> THEN "exit1" ELSE "mutate")]_vars

\* C29 witness: of the two identifiers of a users file the first did not
\* resolve; the mutations were called for the second alone and the run ended
\* with status 0.
C29_Witness ==
    /\ users_file /\ Len(identifiers) = 2
    /\ target_users = <<2>>
    /\ attempted # <<>>
    /\ main_pc = "exit0"

\* C30: with a positive configured rate, a _rate_limit_wait never sleeps
\* longer than min_time_between_requests; the one that opens attempt 1 (it
\* follows the backoff sleep of attempt 0) sleeps at most
\* min_time_between_requests - 1 seconds, and the one that opens a later
\* attempt (it follows a backoff sleep of at least 2 seconds) does not sleep.
C30_ThrottleAfterBackoff ==
    (rate_limit_per_second > 0 /\ epc = "call" /\ waits >= 1) =>
       LET m == min_at_wait
           less1 == IF m.n > m.d THEN Frac(m.n - m.d, m.d) ELSE Frac(0, 1)
       IN  /\ slept <= CeilTicks(m)
           /\ attempt = 1 => slept <= CeilTicks(less1)
           /\ attempt >= 2 => slept = 0

\* C30 witness: the interval stands at its ceiling of 2.0 seconds and the
\* throttle wait opening the third attempt has just returned without sleeping.
C30_Witness ==
    /\ rate_limit_per_second > 0
    /\ epc = "call" /\ attempt = 2
    /\ FracEq(min_at_wait, Frac(CeilingSecs, 1))
    /\ slept = 0

====
